---- MODULE Spec2Model ----
\* workctl: WorkQueue<T> (src/src/work_queue.rs) and SyncFlagTx / SyncFlagRx
\* (src/src/sync_flag.rs), used by a controller thread and worker threads.
\*
\* Every critical section of the code is two steps: the step that acquires the
\* Mutex (self.inner.lock()) and the step that runs the body under the guard and
\* drops the guard at the end of the `if let` block.
EXTENDS Integers, Sequences, FiniteSets, Bags, TLC

\* ---------------------------------------------------------------- universe

\* The threads of the program. "c" is the controller: it constructs the queue
\* and the flag pair and keeps the SyncFlagTx, which is not Clone.
Threads == {"c", "w1", "w2"}
Controller == "c"
NoThread == "none"

\* Work items (the T of WorkQueue<T>); the values of the crate example.
Values == {1023, 1024}

\* Bound on the number of push_work calls in a behaviour.
MaxPush == 3

\* Option<T>: None is the empty sequence, Some(x) the one-element sequence.
None == << >>
Some(x) == << x >>

VARIABLES
    queue,      \* the VecDeque<T> inside WorkQueue.inner
    flag,       \* the bool inside SyncFlagTx.inner / SyncFlagRx.inner
    qlock,      \* the thread holding the queue's MutexGuard, or NoThread
    flock,      \* the thread holding the flag's MutexGuard, or NoThread
    wq,         \* the threads that own a WorkQueue handle (a clone of the Arc)
    rx,         \* the threads that own a SyncFlagRx handle (a clone of the Arc)
    pc,         \* pc[t]: where thread t is in the operation it is running
    arg,        \* arg[t]: the argument of the push_work / set call t is running
    tried,      \* tried[t]: t's running wait call has made a pull attempt
    ret,        \* the latest return of a call: the operation and the value
    initial,    \* history: the initial_state given to new_syncflag
    written,    \* history: the argument of the latest completed set, or
                \* initial_state when no set has completed
    pushed,     \* history: the items pushed, in the order push_back ran
    pulled,     \* history: the items popped (each returned to the caller that
                \* popped it), in the order pop_front ran
    capacity,   \* the number of items the VecDeque has storage for
    qpoison,    \* the queue's Mutex is poisoned
    fpoison,    \* the flag's Mutex is poisoned
    channel,    \* the messages in flight on the mpsc channel of the crate
                \* example, oldest first
    results     \* the Vec of results the controller of the crate example has
                \* received

\* The poison marks of the two Mutexes.
poison == << qpoison, fpoison >>

\* The result channel of the crate example and what came out of it.
example == << channel, results >>

vars == << queue, flag, qlock, flock, wq, rx, pc, arg, ret, pushed, pulled, tried,
           initial, written, capacity, poison, example >>

\* ---------------------------------------------------------------- VecDeque

\* A push_back that stores the item twice.
push_back_twice(q, x) == Append(Append(q, x), x)

\* VecDeque::push_back
push_back(q, x) == Append(q, x)

\* A pop at the wrong end (VecDeque::pop_back).
pop_back(q) ==
    IF q = << >> THEN [item |-> None, rest |-> q]
    ELSE [item |-> Some(q[Len(q)]), rest |-> SubSeq(q, 1, Len(q) - 1)]

\* A pop that returns the head and leaves it in the deque (front().cloned()).
pop_front_keep(q) ==
    IF q = << >> THEN [item |-> None, rest |-> q]
    ELSE [item |-> Some(Head(q)), rest |-> q]

\* VecDeque::pop_front: the Option returned and the deque left behind
pop_front(q) ==
    IF q = << >> THEN [item |-> None, rest |-> q]
    ELSE [item |-> Some(Head(q)), rest |-> Tail(q)]

\* VecDeque::len
deque_len(q) == Len(q)

\* The storage never grows.
reserve_fixed(cap, n) == cap

\* VecDeque::push_back makes room before it writes: storage for n items is
\* kept when there is that much, else it grows to the larger of twice the old
\* capacity, n, and the smallest allocation for i32 items (4).
reserve(cap, n) ==
    IF n <= cap THEN cap
    ELSE IF 2 * cap >= n /\ 2 * cap >= 4 THEN 2 * cap
    ELSE IF n >= 4 THEN n
    ELSE 4

\* ---------------------------------------------------------------- results

NoRet == [op |-> "none", val |-> None]
Ret(o, v) == [op |-> o, val |-> v]

\* ---------------------------------------------------------------- bodies

\* A push_work that takes the length before it appends.
push_work_stale(q, x) ==
    LET q2 == push_back(q, x)
    IN  [queue |-> q2, ret |-> deque_len(q)]

\* WorkQueue::push_work under the guard: push_back, then len of the result
push_work(q, x) ==
    LET q2 == push_back(q, x)
    IN  [queue |-> q2, ret |-> deque_len(q2)]

\* A pull_work that throws away what is behind the head.
pull_work_drain(q) == [item |-> pop_front(q).item, rest |-> << >>]

\* WorkQueue::pull_work under the guard
pull_work(q) == pop_front(q)

\* A len that reports the free room of a deque of capacity MaxPush.
len_room(q) == MaxPush - deque_len(q)

\* WorkQueue::len under the guard
len(q) == deque_len(q)

\* A guard that outlives the block it was taken in.
release_kept(holder) == holder

\* The MutexGuard goes out of scope at the end of the `if let Ok(..)` block
\* (or is dropped by unwinding): the Mutex has no holder.
release(holder) == NoThread

\* A lock() that takes no notice of the poison mark.
lock_ignores_poison(poisoned) == "Ok"

\* Mutex::lock once the Mutex is free: Err(PoisonError) when a thread panicked
\* holding the guard, else Ok(guard); the code goes on with `if let Ok(..)`.
lock(poisoned) == IF poisoned THEN "Err" ELSE "Ok"

\* A set that assigns the guarded value to itself (`*v = *v`).
set_self(v, state) == v

\* SyncFlagTx::set under the guard: *v = state
set(v, state) == state

\* SyncFlagRx::get under the guard: *v
get(v) == v

\* A loop condition with the test inverted (`while !run_flag.get()`).
wait_after_get_inverted(b) == IF b THEN "stopped" ELSE "wait_pull"

\* A loop that never consults the value it read (`loop { ... }`).
wait_after_get_ignored(b) == "wait_pull"

\* WorkQueue::wait, the loop condition `while run_flag.get()`: where the call
\* goes after the flag was read as b (false: `return None`, the call is over
\* and the worker is told to stop)
wait_after_get(b) == IF b THEN "wait_pull" ELSE "stopped"

\* A loop body that pulls and never returns what it pulled.
wait_after_pull_dropped(item) == "wait_yield"

\* A loop body that gives up after the first failed pull.
wait_after_pull_gives_up(item) == IF item # None THEN "idle" ELSE "stopped"

\* A loop body that goes for another item after it got one.
wait_after_pull_greedy(item) == IF item # None THEN "wait_pull" ELSE "wait_yield"

\* WorkQueue::wait, `if let Some(w) = self.pull_work() { return Some(w); }`
wait_after_pull(item) == IF item # None THEN "idle" ELSE "wait_yield"

\* Thread t is running no call: it is "idle", or "stopped" when the last thing
\* it did was to get None from wait.
AtRest(t) == pc[t] \in {"idle", "stopped"}

\* ---------------------------------------------------------------- Init

\* WorkQueue::new() and new_syncflag(true), as in every example of the crate,
\* in the controller; no clone has been made yet, no call is running.
Init ==
    /\ queue = << >>
    /\ flag = TRUE
    /\ initial = flag
    /\ written = flag
    /\ qlock = NoThread
    /\ flock = NoThread
    /\ wq = {Controller}
    /\ rx = {Controller}
    /\ pc = [t \in Threads |-> "idle"]
    /\ arg = [t \in Threads |-> None]
    /\ ret = NoRet
    /\ tried = [t \in Threads |-> FALSE]
    /\ pushed = << >>
    /\ pulled = << >>
    /\ capacity = 0
    /\ qpoison = FALSE
    /\ fpoison = FALSE
    /\ channel = << >>
    /\ results = << >>

\* ---------------------------------------------------------------- actions

\* #[derive(Clone)] on WorkQueue: thread t clones its handle for thread u
CloneQueue(t, u) ==
    /\ AtRest(t)
    /\ t \in wq
    /\ u \notin wq
    /\ wq' = wq \cup {u}
    /\ ret' = Ret("clone", "WorkQueue")
    /\ UNCHANGED << example, poison, capacity, initial, written, tried, queue, flag, qlock, flock, rx, pc, arg,
                    pushed, pulled >>

\* #[derive(Clone)] on SyncFlagRx: thread t clones its handle for thread u
CloneRx(t, u) ==
    /\ AtRest(t)
    /\ t \in rx
    /\ u \notin rx
    /\ rx' = rx \cup {u}
    /\ ret' = Ret("clone", "SyncFlagRx")
    /\ UNCHANGED << example, poison, capacity, initial, written, tried, queue, flag, qlock, flock, wq, pc, arg,
                    pushed, pulled >>

\* push_work(work_element): self.inner.lock() succeeds
PushLock(t, v) ==
    /\ AtRest(t)
    /\ t \in wq
    /\ Len(pushed) < MaxPush
    /\ qlock = NoThread
    /\ lock(qpoison) = "Ok"
    /\ qlock' = t
    /\ pc' = [pc EXCEPT ![t] = "push"]
    /\ arg' = [arg EXCEPT ![t] = Some(v)]
    /\ UNCHANGED << example, poison, capacity, initial, written, tried, queue, flag, flock, wq, rx, ret, pushed, pulled >>

\* push_work: queue.push_back(work_element); queue.len(); the guard drops
PushBody(t) ==
    /\ pc[t] = "push"
    /\ LET r == push_work(queue, arg[t][1])
       IN  /\ queue' = r.queue
           /\ ret' = Ret("push_work", r.ret)
    /\ capacity' = reserve(capacity, deque_len(queue) + 1)
    /\ pushed' = Append(pushed, arg[t][1])
    /\ qlock' = release(qlock)
    /\ pc' = [pc EXCEPT ![t] = "idle"]
    /\ arg' = [arg EXCEPT ![t] = None]
    /\ UNCHANGED << example, poison, initial, written, tried, flag, flock, wq, rx, pulled >>

\* pull_work(): self.inner.lock() succeeds
PullLock(t) ==
    /\ AtRest(t)
    /\ t \in wq
    /\ qlock = NoThread
    /\ lock(qpoison) = "Ok"
    /\ qlock' = t
    /\ pc' = [pc EXCEPT ![t] = "pull"]
    /\ UNCHANGED << example, poison, capacity, initial, written, tried, queue, flag, flock, wq, rx, arg, ret, pushed, pulled >>

\* pull_work: queue.pop_front(); the guard drops
PullBody(t) ==
    /\ pc[t] = "pull"
    /\ LET r == pull_work(queue)
       IN  /\ queue' = r.rest
           /\ ret' = Ret("pull_work", r.item)
           /\ pulled' = pulled \o r.item
    /\ qlock' = release(qlock)
    /\ pc' = [pc EXCEPT ![t] = "idle"]
    /\ UNCHANGED << example, poison, capacity, initial, written, tried, flag, flock, wq, rx, arg, pushed >>

\* len(): self.inner.lock() succeeds
LenLock(t) ==
    /\ AtRest(t)
    /\ t \in wq
    /\ qlock = NoThread
    /\ lock(qpoison) = "Ok"
    /\ qlock' = t
    /\ pc' = [pc EXCEPT ![t] = "len"]
    /\ UNCHANGED << example, poison, capacity, initial, written, tried, queue, flag, flock, wq, rx, arg, ret, pushed, pulled >>

\* len: queue.len(); the guard drops
LenBody(t) ==
    /\ pc[t] = "len"
    /\ ret' = Ret("len", len(queue))
    /\ qlock' = release(qlock)
    /\ pc' = [pc EXCEPT ![t] = "idle"]
    /\ UNCHANGED << example, poison, capacity, initial, written, tried, queue, flag, flock, wq, rx, arg, pushed, pulled >>

\* SyncFlagTx::set(state): self.inner.lock() succeeds
SetLock(t, b) ==
    /\ AtRest(t)
    /\ t = Controller
    /\ flock = NoThread
    /\ lock(fpoison) = "Ok"
    /\ flock' = t
    /\ pc' = [pc EXCEPT ![t] = "set"]
    /\ arg' = [arg EXCEPT ![t] = Some(b)]
    /\ UNCHANGED << example, poison, capacity, initial, written, tried, queue, flag, qlock, wq, rx, ret, pushed, pulled >>

\* set: *v = state; the guard drops
SetBody(t) ==
    /\ pc[t] = "set"
    /\ flag' = set(flag, arg[t][1])
    /\ written' = arg[t][1]
    /\ ret' = Ret("set", arg[t][1])
    /\ flock' = release(flock)
    /\ pc' = [pc EXCEPT ![t] = "idle"]
    /\ arg' = [arg EXCEPT ![t] = None]
    /\ UNCHANGED << example, poison, capacity, initial, tried, queue, qlock, wq, rx, pushed, pulled >>

\* SyncFlagRx::get(): self.inner.lock() succeeds
GetLock(t) ==
    /\ AtRest(t)
    /\ t \in rx
    /\ flock = NoThread
    /\ lock(fpoison) = "Ok"
    /\ flock' = t
    /\ pc' = [pc EXCEPT ![t] = "get"]
    /\ UNCHANGED << example, poison, capacity, initial, written, tried, queue, flag, qlock, wq, rx, arg, ret, pushed, pulled >>

\* get: *v; the guard drops
GetBody(t) ==
    /\ pc[t] = "get"
    /\ ret' = Ret("get", get(flag))
    /\ flock' = release(flock)
    /\ pc' = [pc EXCEPT ![t] = "idle"]
    /\ UNCHANGED << example, poison, capacity, initial, written, tried, queue, flag, qlock, wq, rx, arg, pushed, pulled >>

\* wait(&run_flag) is called: the thread is at the head of the while loop
WaitCall(t) ==
    /\ AtRest(t)
    /\ t \in wq
    /\ t \in rx
    /\ pc' = [pc EXCEPT ![t] = "wait_get"]
    /\ UNCHANGED << example, poison, capacity, initial, written, tried, queue, flag, qlock, flock, wq, rx, arg, ret,
                    pushed, pulled >>

\* wait: run_flag.get() locks the flag
WaitGetLock(t) ==
    /\ pc[t] = "wait_get"
    /\ flock = NoThread
    /\ lock(fpoison) = "Ok"
    /\ flock' = t
    /\ pc' = [pc EXCEPT ![t] = "wait_get_locked"]
    /\ UNCHANGED << example, poison, capacity, initial, written, tried, queue, flag, qlock, wq, rx, arg, ret, pushed, pulled >>

\* wait: run_flag.get() reads the flag and drops the guard; the loop body is
\* entered when it read true, and wait returns None when it read false
WaitGetBody(t) ==
    /\ pc[t] = "wait_get_locked"
    /\ flock' = release(flock)
    /\ LET next == wait_after_get(get(flag))
       IN  /\ pc' = [pc EXCEPT ![t] = next]
           /\ tried' = IF next = "stopped" THEN [tried EXCEPT ![t] = FALSE] ELSE tried
           /\ ret' = IF next = "stopped" THEN Ret("wait", None) ELSE ret
    /\ UNCHANGED << example, poison, capacity, initial, written, queue, flag, qlock, wq, rx, arg, pushed, pulled >>

\* wait: self.pull_work() locks the queue
WaitPullLock(t) ==
    /\ pc[t] = "wait_pull"
    /\ qlock = NoThread
    /\ lock(qpoison) = "Ok"
    /\ qlock' = t
    /\ pc' = [pc EXCEPT ![t] = "wait_pull_locked"]
    /\ UNCHANGED << example, poison, capacity, initial, written, tried, queue, flag, flock, wq, rx, arg, ret, pushed, pulled >>

\* wait: self.pull_work() pops and drops the guard; Some(w) is returned,
\* None goes on to thread::yield_now()
WaitPullBody(t) ==
    /\ pc[t] = "wait_pull_locked"
    /\ qlock' = release(qlock)
    /\ LET r == pull_work(queue)
           next == wait_after_pull(r.item)
       IN  /\ queue' = r.rest
           /\ pulled' = pulled \o r.item
           /\ pc' = [pc EXCEPT ![t] = next]
           /\ tried' = [tried EXCEPT ![t] = (next # "idle")]
           /\ ret' = IF next = "idle" THEN Ret("wait", r.item) ELSE ret
    /\ UNCHANGED << example, poison, capacity, initial, written, flag, flock, wq, rx, arg, pushed >>

\* A loop that pulls again after the yield and reads the flag afterwards.
WaitYieldThenPull(t) ==
    /\ pc[t] = "wait_yield"
    /\ pc' = [pc EXCEPT ![t] = "wait_pull"]
    /\ UNCHANGED << example, poison, capacity, initial, written, tried, queue,
                    flag, qlock, flock, wq, rx, arg, ret, pushed, pulled >>

\* wait: thread::yield_now(), then back to the loop condition
WaitYield(t) ==
    /\ pc[t] = "wait_yield"
    /\ pc' = [pc EXCEPT ![t] = "wait_get"]
    /\ UNCHANGED << example, poison, capacity, initial, written, tried, queue, flag, qlock, flock, wq, rx, arg, ret,
                    pushed, pulled >>

\* ---------------------------------------------------------------- Spec

Next ==
    \E t \in Threads :
        \/ \E u \in Threads : CloneQueue(t, u)
        \/ \E u \in Threads : CloneRx(t, u)
        \/ \E v \in Values : PushLock(t, v)
        \/ PushBody(t)
        \/ PullLock(t)
        \/ PullBody(t)
        \/ LenLock(t)
        \/ LenBody(t)
        \/ \E b \in BOOLEAN : SetLock(t, b)
        \/ SetBody(t)
        \/ GetLock(t)
        \/ GetBody(t)
        \/ WaitCall(t)
        \/ WaitGetLock(t)
        \/ WaitGetBody(t)
        \/ WaitPullLock(t)
        \/ WaitPullBody(t)
        \/ WaitYield(t)

Spec == Init /\ [][Next]_vars

\* ---------------------------------------------------------------- shutdown

\* Scheduling: a thread that holds a guard or is between two statements of
\* wait keeps running (weak fairness), and a thread blocked in lock() inside
\* wait gets the Mutex at one of the times it is free (strong fairness).
\* Whether a thread makes another call is left open.
WaitFairness(t) ==
    /\ WF_vars(WaitGetBody(t))
    /\ WF_vars(WaitPullBody(t))
    /\ WF_vars(WaitYield(t))
    /\ SF_vars(WaitGetLock(t))
    /\ SF_vars(WaitPullLock(t))

\* The shutdown protocol of the crate example: new_syncflag(true), the queue
\* and the read handle cloned into every worker; the controller pushes work
\* and sets the flag, the workers call wait.
ShutdownInit ==
    /\ queue = << >>
    /\ flag = TRUE
    /\ initial = TRUE
    /\ written = TRUE
    /\ qlock = NoThread
    /\ flock = NoThread
    /\ wq = Threads
    /\ rx = Threads
    /\ pc = [t \in Threads |-> "idle"]
    /\ arg = [t \in Threads |-> None]
    /\ tried = [t \in Threads |-> FALSE]
    /\ ret = NoRet
    /\ pushed = << >>
    /\ pulled = << >>
    /\ capacity = 0
    /\ qpoison = FALSE
    /\ fpoison = FALSE
    /\ channel = << >>
    /\ results = << >>

ShutdownNext ==
    \/ \E v \in Values : PushLock(Controller, v)
    \/ PushBody(Controller)
    \/ \E b \in BOOLEAN : SetLock(Controller, b)
    \/ SetBody(Controller)
    \/ \E t \in Threads \ {Controller} :
        \/ WaitCall(t)
        \/ WaitGetLock(t)
        \/ WaitGetBody(t)
        \/ WaitPullLock(t)
        \/ WaitPullBody(t)
        \/ WaitYield(t)

ShutdownSpec ==
    /\ ShutdownInit
    /\ [][ShutdownNext]_vars
    /\ WF_vars(PushBody(Controller))
    /\ WF_vars(SetBody(Controller))
    /\ \A t \in Threads \ {Controller} : WaitFairness(t)

\* ---------------------------------------------------------------- wake-up

\* The one consumer of the wake-up scenario (the spawned thread of the
\* WorkQueue doc example); the other threads push and look at the length.
Waiter == "w1"

WakeNext ==
    \/ \E t \in Threads \ {Waiter} :
        \/ \E v \in Values : PushLock(t, v)
        \/ PushBody(t)
        \/ LenLock(t)
        \/ LenBody(t)
    \/ WaitCall(Waiter)
    \/ WaitGetLock(Waiter)
    \/ WaitGetBody(Waiter)
    \/ WaitPullLock(Waiter)
    \/ WaitPullBody(Waiter)
    \/ WaitYield(Waiter)

\* The flag is true and is never set; only the waiter removes items.
WakeSpec ==
    /\ ShutdownInit
    /\ [][WakeNext]_vars
    /\ WaitFairness(Waiter)
    /\ \A t \in Threads \ {Waiter} : WF_vars(PushBody(t)) /\ WF_vars(LenBody(t))

\* ---------------------------------------------------------------- doc example

\* The doc example of wait (work_queue.rs:105-140), with MaxPush - 1 items
\* pushed before the flag is cleared and one after (2 and 1 in the example).
\* The worker runs `while let Some(work) = thread_wq.wait(&run_rx)`: it calls
\* wait again until one call returns None.
DocWorkerCall == WaitCall(Waiter) /\ pc[Waiter] = "idle"

\* wq.push_work(1337); wq.push_work(1024);
DocPushEarly(v) ==
    /\ flag
    /\ Len(pushed) < MaxPush - 1
    /\ PushLock(Controller, v)

\* thread::sleep_ms(1000), in which the worker drains the queue, and then
\* run_tx.set(false)
DocSetFalse ==
    /\ flag
    /\ Len(pushed) = MaxPush - 1
    /\ Len(pulled) = MaxPush - 1
    /\ SetLock(Controller, FALSE)

\* wq.push_work(1776): "This work won't get done."
DocPushLate(v) ==
    /\ ~flag
    /\ PushLock(Controller, v)

DocNext ==
    \/ \E v \in Values : DocPushEarly(v)
    \/ DocSetFalse
    \/ \E v \in Values : DocPushLate(v)
    \/ PushBody(Controller)
    \/ SetBody(Controller)
    \/ DocWorkerCall
    \/ WaitGetLock(Waiter)
    \/ WaitGetBody(Waiter)
    \/ WaitPullLock(Waiter)
    \/ WaitPullBody(Waiter)
    \/ WaitYield(Waiter)

DocSpec == ShutdownInit /\ [][DocNext]_vars

\* ---------------------------------------------------------------- flag only

\* new_syncflag(initial_state) with either initial state; the controller sets
\* the flag, read handles are cloned at any time, every owner of one calls get.
FlagInit ==
    /\ queue = << >>
    /\ flag \in BOOLEAN
    /\ initial = flag
    /\ written = flag
    /\ qlock = NoThread
    /\ flock = NoThread
    /\ wq = {Controller}
    /\ rx = {Controller}
    /\ pc = [t \in Threads |-> "idle"]
    /\ arg = [t \in Threads |-> None]
    /\ tried = [t \in Threads |-> FALSE]
    /\ ret = NoRet
    /\ pushed = << >>
    /\ pulled = << >>
    /\ capacity = 0
    /\ qpoison = FALSE
    /\ fpoison = FALSE
    /\ channel = << >>
    /\ results = << >>

FlagNext ==
    \E t \in Threads :
        \/ \E u \in Threads : CloneRx(t, u)
        \/ \E b \in BOOLEAN : SetLock(t, b)
        \/ SetBody(t)
        \/ GetLock(t)
        \/ GetBody(t)

FlagSpec == FlagInit /\ [][FlagNext]_vars

\* ---------------------------------------------------------------- flag reader

\* The threads spawned with a clone of the read handle.
Readers == Threads \ {Controller}

\* A reader loop that never looks at what get returned (`loop { ... }`).
reader_after_get_spin(b) == "yield"

\* The reader of the sync_flag example, `while thread_rx.get() { yield_now() }`:
\* where the thread goes after get returned b
reader_after_get(b) == IF b THEN "yield" ELSE "stopped"

\* The reader evaluates its loop condition: thread_rx.get() locks the flag.
ReaderGetLock(t) ==
    /\ pc[t] = "idle"
    /\ GetLock(t)

\* thread_rx.get() reads the flag and drops the guard; true enters the loop
\* body, false leaves the loop.
ReaderGetBody(t) ==
    /\ pc[t] = "get"
    /\ LET b == get(flag)
       IN  /\ ret' = Ret("get", b)
           /\ pc' = [pc EXCEPT ![t] = reader_after_get(b)]
    /\ flock' = release(flock)
    /\ UNCHANGED << example, poison, capacity, initial, written, tried, queue, flag, qlock, wq, rx, arg,
                    pushed, pulled >>

\* The loop body: thread::yield_now(), then back to the loop condition.
ReaderYield(t) ==
    /\ pc[t] = "yield"
    /\ pc' = [pc EXCEPT ![t] = "idle"]
    /\ UNCHANGED << example, poison, capacity, initial, written, tried, queue, flag, qlock, flock, wq, rx,
                    arg, ret, pushed, pulled >>

\* The controller sets the flag while the program runs; tx.set(false) is the
\* last thing it does.
ReaderSet(b) ==
    /\ flag
    /\ SetLock(Controller, b)

\* `let thread_rx = rx.clone(); thread::spawn(...)`: the controller clones the
\* read handle for reader t, which starts with it.
ReaderSpawn(t) == CloneRx(Controller, t)

\* "Do something here, like maybe adding work to a WorkQueue".
ReaderWork ==
    \/ \E v \in Values : PushLock(Controller, v)
    \/ PushBody(Controller)

ReaderNext ==
    \/ \E b \in BOOLEAN : ReaderSet(b)
    \/ SetBody(Controller)
    \/ ReaderWork
    \/ \E t \in Readers :
          \/ ReaderSpawn(t)
          \/ ReaderGetLock(t)
          \/ ReaderGetBody(t)
          \/ ReaderYield(t)

\* Weak fairness on every step of the readers and on the controller's write
\* under the guard.
ReaderSpec ==
    /\ Init
    /\ [][ReaderNext]_vars
    /\ WF_vars(SetBody(Controller))
    /\ \A t \in Readers :
          /\ WF_vars(ReaderGetLock(t))
          /\ WF_vars(ReaderGetBody(t))
          /\ WF_vars(ReaderYield(t))

\* ---------------------------------------------------------------- crate example

\* The worker threads the controller of the crate example spawns.
Workers == Threads \ {Controller}

\* `let result = work_input % 1024; t_results_tx.send((work_input, result))`
result(w) == << w, w % 1024 >>

\* The worker loop condition `while t_more_jobs.get()`: where the worker goes
\* after get returned b
worker_after_get(b) == IF b THEN "ex_pull" ELSE "stopped"

\* A worker that pulls work and never sends a result for it.
worker_after_pull_lost(item) == "yield"

\* The worker loop body `if let Some(work_input) = t_queue.pull_work() { ...
\* send ... } else { thread::yield_now(); }`
worker_after_pull(item) == IF item # None THEN "ex_send" ELSE "yield"

\* The value the controller pushes next: `for _ in 0..10 { push_work(1023) }`,
\* then `for _ in 0..10 { push_work(1024) }`, half of MaxPush each.
ExWork == IF 2 * Len(pushed) < MaxPush THEN 1023 ELSE 1024

\* t_more_jobs.get() locks the flag.
ExGetLock(t) ==
    /\ pc[t] = "idle"
    /\ GetLock(t)

\* t_more_jobs.get() reads the flag and drops the guard.
ExGetBody(t) ==
    /\ pc[t] = "get"
    /\ LET b == get(flag)
       IN  /\ ret' = Ret("get", b)
           /\ pc' = [pc EXCEPT ![t] = worker_after_get(b)]
    /\ flock' = release(flock)
    /\ UNCHANGED << example, poison, capacity, initial, written, tried, queue,
                    flag, qlock, wq, rx, arg, pushed, pulled >>

\* t_queue.pull_work() locks the queue.
ExPullLock(t) ==
    /\ pc[t] = "ex_pull"
    /\ qlock = NoThread
    /\ lock(qpoison) = "Ok"
    /\ qlock' = t
    /\ pc' = [pc EXCEPT ![t] = "pull"]
    /\ UNCHANGED << example, poison, capacity, initial, written, tried, queue,
                    flag, flock, wq, rx, arg, ret, pushed, pulled >>

\* t_queue.pull_work() pops and drops the guard; the worker keeps the item as
\* work_input.
ExPullBody(t) ==
    /\ pc[t] = "pull"
    /\ LET r == pull_work(queue)
       IN  /\ queue' = r.rest
           /\ ret' = Ret("pull_work", r.item)
           /\ pulled' = pulled \o r.item
           /\ arg' = [arg EXCEPT ![t] = r.item]
           /\ pc' = [pc EXCEPT ![t] = worker_after_pull(r.item)]
    /\ qlock' = release(qlock)
    /\ UNCHANGED << example, poison, capacity, initial, written, tried, flag,
                    flock, wq, rx, pushed >>

\* t_results_tx.send((work_input, result)), then back to the loop condition.
ExSend(t) ==
    /\ pc[t] = "ex_send"
    /\ channel' = Append(channel, result(arg[t][1]))
    /\ arg' = [arg EXCEPT ![t] = None]
    /\ pc' = [pc EXCEPT ![t] = "idle"]
    /\ UNCHANGED << results, poison, capacity, initial, written, tried, queue,
                    flag, qlock, flock, wq, rx, ret, pushed, pulled >>

\* thread::yield_now(), then back to the loop condition.
ExYield(t) == ReaderYield(t)

\* The controller puts the work in the queue.
ExPush ==
    /\ pc[Controller] = "idle"
    /\ PushLock(Controller, ExWork)

\* `while total_work > 0 { let r = results_rx.recv().unwrap(); ... }` once all
\* the work is pushed: recv blocks while the channel is empty.
ExRecv ==
    /\ pc[Controller] = "idle"
    /\ Len(pushed) = MaxPush
    /\ Len(results) < MaxPush
    /\ channel # << >>
    /\ results' = Append(results, Head(channel))
    /\ channel' = Tail(channel)
    /\ UNCHANGED << poison, capacity, initial, written, tried, queue, flag,
                    qlock, flock, wq, rx, pc, arg, ret, pushed, pulled >>

\* `more_jobs_tx.set(false)` after the receive loop.
ExSet ==
    /\ pc[Controller] = "idle"
    /\ Len(results) = MaxPush
    /\ flag
    /\ SetLock(Controller, FALSE)

ExampleNext ==
    \/ ExPush
    \/ PushBody(Controller)
    \/ ExRecv
    \/ ExSet
    \/ SetBody(Controller)
    \/ \E t \in Workers :
          \/ ExGetLock(t)
          \/ ExGetBody(t)
          \/ ExPullLock(t)
          \/ ExPullBody(t)
          \/ ExSend(t)
          \/ ExYield(t)

\* Every thread keeps running (weak fairness on each of its steps) and a
\* thread blocked in lock() gets the Mutex in the end (strong fairness on the
\* steps that take a lock).
ExampleSpec ==
    /\ ShutdownInit
    /\ [][ExampleNext]_vars
    /\ SF_vars(ExPush)
    /\ WF_vars(PushBody(Controller))
    /\ WF_vars(ExRecv)
    /\ SF_vars(ExSet)
    /\ WF_vars(SetBody(Controller))
    /\ \A t \in Workers :
          /\ SF_vars(ExGetLock(t))
          /\ WF_vars(ExGetBody(t))
          /\ SF_vars(ExPullLock(t))
          /\ WF_vars(ExPullBody(t))
          /\ WF_vars(ExSend(t))
          /\ WF_vars(ExYield(t))

\* ---------------------------------------------------------------- poisoning

\* The calls on a WorkQueue handle that begin with self.inner.lock().
QueueCalls == {"push_work", "pull_work", "len"}

\* A thread panics while it holds the queue guard (push_back cannot get the
\* storage it needs): the guard is dropped during unwinding, which poisons the
\* Mutex and releases it; the thread is gone.
QueueGuardPanic(t) ==
    /\ pc[t] = "push"
    /\ qpoison' = TRUE
    /\ qlock' = release(qlock)
    /\ pc' = [pc EXCEPT ![t] = "panicked"]
    /\ arg' = [arg EXCEPT ![t] = None]
    /\ UNCHANGED << example, fpoison, capacity, initial, written, tried, queue,
                    flag, flock, wq, rx, ret, pushed, pulled >>

\* The writer panics while it holds the flag guard: the Mutex is poisoned and
\* released. Nothing under the guard of set can panic as the code stands; the
\* step is the condition the else branches of set and get are written for.
FlagGuardPanic(t) ==
    /\ pc[t] = "set"
    /\ fpoison' = TRUE
    /\ flock' = release(flock)
    /\ pc' = [pc EXCEPT ![t] = "panicked"]
    /\ arg' = [arg EXCEPT ![t] = None]
    /\ UNCHANGED << example, qpoison, capacity, initial, written, tried, queue,
                    flag, qlock, wq, rx, ret, pushed, pulled >>

\* push_work, pull_work, len: self.inner.lock() returns Err on the poisoned
\* Mutex (the guard inside the Err is dropped at once), the else branch panics.
QueueCallPanics(t, op) ==
    /\ AtRest(t)
    /\ t \in wq
    /\ qlock = NoThread
    /\ lock(qpoison) = "Err"
    /\ pc' = [pc EXCEPT ![t] = "panicked"]
    /\ ret' = Ret("panic", op)
    /\ UNCHANGED << example, poison, capacity, initial, written, tried, queue,
                    flag, qlock, flock, wq, rx, arg, pushed, pulled >>

\* wait: self.pull_work() panics on the poisoned queue Mutex.
WaitPullPanics(t) ==
    /\ pc[t] = "wait_pull"
    /\ qlock = NoThread
    /\ lock(qpoison) = "Err"
    /\ pc' = [pc EXCEPT ![t] = "panicked"]
    /\ tried' = [tried EXCEPT ![t] = FALSE]
    /\ ret' = Ret("panic", "pull_work")
    /\ UNCHANGED << example, poison, capacity, initial, written, queue, flag,
                    qlock, flock, wq, rx, arg, pushed, pulled >>

\* set, get: self.inner.lock() returns Err on the poisoned Mutex, the else
\* branch panics.
FlagCallPanics(t, op) ==
    /\ AtRest(t)
    /\ IF op = "set" THEN t = Controller ELSE t \in rx
    /\ flock = NoThread
    /\ lock(fpoison) = "Err"
    /\ pc' = [pc EXCEPT ![t] = "panicked"]
    /\ ret' = Ret("panic", op)
    /\ UNCHANGED << example, poison, capacity, initial, written, tried, queue,
                    flag, qlock, flock, wq, rx, arg, pushed, pulled >>

\* wait: run_flag.get() panics on the poisoned flag Mutex.
WaitGetPanics(t) ==
    /\ pc[t] = "wait_get"
    /\ flock = NoThread
    /\ lock(fpoison) = "Err"
    /\ pc' = [pc EXCEPT ![t] = "panicked"]
    /\ tried' = [tried EXCEPT ![t] = FALSE]
    /\ ret' = Ret("panic", "get")
    /\ UNCHANGED << example, poison, capacity, initial, written, queue, flag,
                    qlock, flock, wq, rx, arg, pushed, pulled >>

\* Every operation of both primitives by every thread, with the panics.
PoisonNext ==
    \E t \in Threads :
        \/ \E v \in Values : PushLock(t, v)
        \/ PushBody(t)
        \/ PullLock(t)
        \/ PullBody(t)
        \/ LenLock(t)
        \/ LenBody(t)
        \/ \E b \in BOOLEAN : SetLock(t, b)
        \/ SetBody(t)
        \/ GetLock(t)
        \/ GetBody(t)
        \/ WaitCall(t)
        \/ WaitGetLock(t)
        \/ WaitGetBody(t)
        \/ WaitPullLock(t)
        \/ WaitPullBody(t)
        \/ WaitYield(t)
        \/ QueueGuardPanic(t)
        \/ FlagGuardPanic(t)
        \/ \E op \in QueueCalls : QueueCallPanics(t, op)
        \/ WaitPullPanics(t)
        \/ \E op \in {"set", "get"} : FlagCallPanics(t, op)
        \/ WaitGetPanics(t)

PoisonSpec == ShutdownInit /\ [][PoisonNext]_vars

\* ---------------------------------------------------------------- with_capacity

\* Bound on the capacity asked for.
MaxCap == 2

\* WorkQueue::with_capacity(n): an empty VecDeque with storage for n items.
with_capacity(n) == [queue |-> << >>, capacity |-> n]

\* WorkQueue::with_capacity(n) for some n, new_syncflag(true), the handles
\* cloned for every thread.
CapInit ==
    /\ \E n \in 1..MaxCap :
          /\ queue = with_capacity(n).queue
          /\ capacity = with_capacity(n).capacity
    /\ flag = TRUE
    /\ initial = flag
    /\ written = flag
    /\ qlock = NoThread
    /\ flock = NoThread
    /\ wq = Threads
    /\ rx = Threads
    /\ pc = [t \in Threads |-> "idle"]
    /\ arg = [t \in Threads |-> None]
    /\ ret = NoRet
    /\ tried = [t \in Threads |-> FALSE]
    /\ pushed = << >>
    /\ pulled = << >>
    /\ qpoison = FALSE
    /\ fpoison = FALSE
    /\ channel = << >>
    /\ results = << >>

\* The controller pushes, asks for the length and sets the flag; the workers
\* pull and wait.
CapNext ==
    \/ \E v \in Values : PushLock(Controller, v)
    \/ PushBody(Controller)
    \/ LenLock(Controller)
    \/ LenBody(Controller)
    \/ \E b \in BOOLEAN : SetLock(Controller, b)
    \/ SetBody(Controller)
    \/ \E t \in Workers :
          \/ PullLock(t)
          \/ PullBody(t)
          \/ WaitCall(t)
          \/ WaitGetLock(t)
          \/ WaitGetBody(t)
          \/ WaitPullLock(t)
          \/ WaitPullBody(t)
          \/ WaitYield(t)

CapSpec == CapInit /\ [][CapNext]_vars

\* ---------------------------------------------------------------- helpers

\* The multiset of the elements of a sequence.
BagOfSeq(s) ==
    [v \in {s[i] : i \in DOMAIN s} |-> Cardinality({i \in DOMAIN s : s[i] = v})]

\* Thread t is inside a wait call.
InWait(t) ==
    pc[t] \in {"wait_get", "wait_get_locked", "wait_pull", "wait_pull_locked",
               "wait_yield"}

\* ---------------------------------------------------------------- C1

\* C1: FIFO order. The items popped so far, followed by the items still in
\* the queue, are the items pushed, in the order in which the pushes held the
\* lock; so pulls made after p1..pn were pushed return p1..pn in that order,
\* whichever handles pushed and pulled.
FifoOrder == pulled \o queue = pushed

\* All MaxPush pushes were made, with two different values, and all of them
\* have been pulled again.
FifoWitness ==
    /\ Len(pushed) = MaxPush
    /\ pulled = pushed
    /\ pushed[1] # pushed[2]
    /\ ret.op = "pull_work"

\* ---------------------------------------------------------------- C2

\* C2: no loss, no duplication. In every state the multiset of the items
\* returned by pulls (pull_work or wait) plus the items still queued is the
\* multiset of the items pushed; once the queue is exhausted the callers have
\* together retrieved exactly as many items as were pushed.
NoLossNoDup ==
    /\ BagOfSeq(pulled) (+) BagOfSeq(queue) = BagOfSeq(pushed)
    /\ queue = << >> => Len(pulled) = Len(pushed)

\* Both values were pushed, the queue is exhausted again, and the last item
\* went to a wait call of a worker.
NoLossNoDupWitness ==
    /\ Len(pushed) = MaxPush
    /\ {pushed[i] : i \in DOMAIN pushed} = Values
    /\ queue = << >>
    /\ BagOfSeq(pulled) = BagOfSeq(pushed)
    /\ ret.op = "wait" /\ ret.val # None

\* ---------------------------------------------------------------- C3

Continue(t) ==
    \/ PushBody(t) \/ PullBody(t) \/ LenBody(t) \/ SetBody(t) \/ GetBody(t)
    \/ WaitGetLock(t) \/ WaitGetBody(t) \/ WaitPullLock(t) \/ WaitPullBody(t)
    \/ WaitYield(t)

\* The thread whose guard thread t is waiting for in lock(), or NoThread.
BlockedBy(t) ==
    IF pc[t] = "wait_get" THEN flock
    ELSE IF pc[t] = "wait_pull" THEN qlock
    ELSE NoThread

\* Every thread inside a call can take a step, or waits for a guard whose
\* holder can take a step.
NoDeadlock ==
    \A t \in Threads :
        ~AtRest(t) =>
            \/ ENABLED Continue(t)
            \/ \E u \in Threads : BlockedBy(t) = u /\ ENABLED Continue(u)

LateWorkNotDone ==
    /\ Len(pulled) <= MaxPush - 1
    /\ pc[Waiter] = "stopped" => Len(pulled) = MaxPush - 1

\* C7: wait returns None only because the flag is false. A wait call ends with
\* None only in a step that finds the flag false, and every step taken while
\* the flag is true and the queue is empty leaves a running wait call running.
WaitNoneOnlyWhenFlagFalse ==
    [][\A t \in Threads :
          /\ (InWait(t) /\ pc'[t] = "stopped") => ~flag
          /\ (InWait(t) /\ flag /\ queue = << >>) => InWait(t)']_vars

\* C7 happens: a wait call has failed a pull and is about to yield and retry
\* with the flag true and the queue empty, after another one returned None.
WaitNoneOnlyWhenFlagFalseWitness ==
    \E t, u \in Threads :
        /\ pc[t] = "wait_yield"
        /\ tried[t]
        /\ flag
        /\ queue = << >>
        /\ pc[u] = "stopped"

\* C8: flag visibility. The value behind the handles is the initial state
\* until a set completes and from then on the argument of the latest completed
\* set, nothing but a completing set changes it, and get on any read handle,
\* whenever it was cloned, returns that value.
FlagVisibility ==
    /\ written = initial
    /\ [](flag = written)
    /\ [][(\A t \in Threads : ~(pc[t] = "set" /\ pc'[t] # "set"))
              => written' = written]_vars
    /\ [][\A t \in Threads :
              (pc[t] = "set" /\ pc'[t] # "set") => written' = arg[t][1]]_vars
    /\ [][\A t \in Threads :
              (pc[t] = "get" /\ pc'[t] # "get")
                  => ret' = Ret("get", written)]_vars

\* C8 happens: the flag was made true and set(false) has completed; the only
\* clone of the read handle was made after that (nothing has returned since
\* the clone did), and its owner is inside get on it.
FlagVisibilityWitness ==
    /\ initial
    /\ ~written
    /\ ret = Ret("clone", "SyncFlagRx")
    /\ \E u \in Threads \ {Controller} :
           /\ rx = {Controller, u}
           /\ pc[u] = "get"

\* C9: length accounting. The queue is empty after new(); its length is always
\* the number of completed pushes minus the number of pulls that returned an
\* item, never negative, and that is what a completing len() returns.
LengthAccounting ==
    /\ len(queue) = 0
    /\ [](/\ len(queue) = Len(pushed) - Len(pulled)
          /\ Len(pushed) - Len(pulled) >= 0)
    /\ [][\A t \in Threads :
              (pc[t] = "len" /\ pc'[t] # "len")
                  => ret' = Ret("len", Len(pushed) - Len(pulled))]_vars

\* C9 happens: two pushes and one successful pull are complete, nothing is in
\* flight, and len() has just returned 1.
LengthAccountingWitness ==
    /\ Len(pushed) = 2
    /\ Len(pulled) = 1
    /\ \A t \in Threads : AtRest(t)
    /\ ret = Ret("len", 1)

\* C10: push_work appends its argument at the tail and returns, in the same
\* step, the length the queue has right after the append: the old length plus
\* one, never 0.
PushReturnsNewLength ==
    [][\A t \in Threads :
          (pc[t] = "push" /\ pc'[t] # "push")
              => /\ queue' = queue \o arg[t]
                 /\ ret' = Ret("push_work", Len(queue) + 1)
                 /\ ret'.val = Len(queue')
                 /\ ret'.val # 0]_vars

\* C10 happens: the third push has returned 2 because one of the two earlier
\* items was pulled meanwhile, and another thread is inside a pull.
PushReturnsNewLengthWitness ==
    /\ Len(pushed) = 3
    /\ Len(pulled) = 1
    /\ ret = Ret("push_work", 2)
    /\ \E t \in Threads : pc[t] \in {"pull", "wait_pull_locked"}

\* ---------------------------------------------------------------- C11

\* C11: pull_work is a single non-blocking attempt. Once it holds the lock its
\* next step returns, whatever the queue holds, and taking the lock does not
\* depend on the queue either; on an empty queue it returns None and leaves the
\* queue empty, on a non-empty queue it returns the head and leaves the tail.
PullWorkSingleAttempt ==
    /\ [](\A t \in Threads :
            /\ pc[t] = "pull" => ENABLED PullBody(t)
            /\ (AtRest(t) /\ t \in wq /\ qlock = NoThread) => ENABLED PullLock(t))
    /\ [][\A t \in Threads :
              (pc[t] = "pull" /\ pc'[t] # "pull")
                  => IF queue = << >>
                     THEN ret' = Ret("pull_work", None) /\ queue' = << >>
                     ELSE /\ ret' = Ret("pull_work", Some(Head(queue)))
                          /\ queue' = Tail(queue)]_vars

\* C11 happens: every item pushed has been pulled, and a pull_work on the
\* emptied queue has returned None while no push is running.
PullWorkSingleAttemptWitness ==
    /\ Len(pushed) = MaxPush
    /\ Len(pulled) = MaxPush
    /\ queue = << >>
    /\ ret = Ret("pull_work", None)
    /\ \A t \in Threads : pc[t] # "push"

\* ---------------------------------------------------------------- C12

\* C12: flag-reader termination. Once the flag is false every spawned reader leaves
\* its `while get() { yield }` loop, and the first get a reader completes
\* after set(false) completed is its last: it leaves the loop in that step and
\* does not come back.
ReaderTerminates ==
    /\ \A t \in Readers : (~flag /\ t \in rx) ~> pc[t] = "stopped"
    /\ [][\A t \in Readers :
              /\ (pc[t] = "get" /\ pc'[t] # "get" /\ ~written)
                    => (ret' = Ret("get", FALSE) /\ pc'[t] = "stopped")
              /\ pc[t] = "stopped" => pc'[t] = "stopped"
              /\ ~flag => ~flag']_vars

\* C12 happens: set(false) has completed; one reader has left its loop, the
\* other one read true before the set and is yielding, its last get to come.
ReaderTerminatesWitness ==
    /\ ~flag
    /\ ret = Ret("get", FALSE)
    /\ \E t, u \in Readers : pc[t] = "stopped" /\ pc[u] = "yield"

\* ---------------------------------------------------------------- C13

CapacityIsOnlyAHint ==
    /\ len(queue) = 0
    /\ [](/\ deque_len(queue) <= capacity
          /\ pulled \o queue = pushed
          /\ \A t \in Threads : pc[t] = "push" => ENABLED PushBody(t)
          /\ (AtRest(Controller) /\ qlock = NoThread /\ Len(pushed) < MaxPush)
                => \A v \in Values : ENABLED PushLock(Controller, v))
    /\ [][\A t \in Threads :
              /\ (pc[t] = "push" /\ pc'[t] # "push")
                    => ret' = Ret("push_work", Len(pushed) - Len(pulled) + 1)
              /\ (pc[t] = "len" /\ pc'[t] # "len")
                    => ret' = Ret("len", Len(pushed) - Len(pulled))
              /\ (pc[t] = "pull" /\ pc'[t] # "pull")
                    => ret' = Ret("pull_work",
                                  IF Len(pulled) < Len(pushed)
                                  THEN Some(pushed[Len(pulled) + 1]) ELSE None)
              /\ (InWait(t) /\ pc'[t] = "idle")
                    => ret' = Ret("wait", Some(pushed[Len(pulled) + 1]))
              /\ (InWait(t) /\ pc'[t] = "stopped")
                    => ret' = Ret("wait", None)]_vars

\* C15 happens: the queue was built with_capacity(1), the second push has
\* returned 2 with both items in the queue, and the storage has grown.
CapacityIsOnlyAHintWitness ==
    /\ Len(pushed) = 2
    /\ Len(queue) = 2
    /\ ret = Ret("push_work", 2)
    /\ capacity = reserve(with_capacity(1).capacity, 2)
    /\ capacity > 2

\* ---------------------------------------------------------------- C16

\* C16: no thread holds both locks. A thread holds the queue lock exactly
\* while it is inside the guarded block of push_work, pull_work, len or wait's
\* pull, and the flag lock exactly while it is inside that of set, get or
\* wait's flag read, never both and none while wait yields; and whoever holds
\* a lock can take its next step, so no thread waits for a lock whose holder
\* waits in turn.
NoTwoLocksHeld ==
    \A t \in Threads :
        /\ ~(qlock = t /\ flock = t)
        /\ qlock = t <=> pc[t] \in {"push", "pull", "len", "wait_pull_locked"}
        /\ flock = t <=> pc[t] \in {"set", "get", "wait_get_locked"}
        /\ qlock = t => ENABLED (\/ PushBody(t) \/ PullBody(t)
                                \/ LenBody(t) \/ WaitPullBody(t))
        /\ flock = t => ENABLED (SetBody(t) \/ GetBody(t) \/ WaitGetBody(t))

\* C16 happens: one thread is inside wait's flag read holding the flag lock,
\* another one inside wait's pull holding the queue lock, and a third one
\* yields in wait holding nothing.
NoTwoLocksHeldWitness ==
    \E t, u, w \in Threads :
        /\ pc[t] = "wait_get_locked" /\ flock = t
        /\ pc[u] = "wait_pull_locked" /\ qlock = u
        /\ pc[w] = "wait_yield"

\* ---------------------------------------------------------------- C17

\* C17: frame conditions. The flag changes only in the step that completes a
\* set, by the controller, to the argument of that set; the queue changes only
\* in the step that completes a push_work, by the item appended, or in a pull
\* (pull_work or wait) that finds an item, by the head removed. The steps of
\* get, clone, push_work, pull_work, len and wait leave the flag as it is, and
\* those of len, get, set, clone and a pull on an empty queue leave the queue
\* as it is.
FrameConditions ==
    [][/\ flag' # flag
            => /\ pc[Controller] = "set" /\ pc'[Controller] # "set"
               /\ flag' = arg[Controller][1]
       /\ queue' # queue
            => \E t \in Threads :
                  \/ /\ pc[t] = "push" /\ pc'[t] # "push"
                     /\ queue' = Append(queue, arg[t][1])
                  \/ /\ pc[t] \in {"pull", "wait_pull_locked"} /\ pc'[t] # pc[t]
                     /\ queue # << >>
                     /\ queue' = Tail(queue)
       /\ (wq' # wq \/ rx' # rx) => (flag' = flag /\ queue' = queue)
       /\ \A t \in Threads :
             /\ pc[t] = "set" => t = Controller
             /\ (pc'[t] # pc[t] /\ (pc[t] \in {"get", "push", "pull", "len"} \/ InWait(t)))
                   => flag' = flag
             /\ (pc'[t] # pc[t] /\ pc[t] \in {"len", "get", "set"})
                   => queue' = queue
             /\ (pc'[t] # pc[t] /\ pc[t] \in {"pull", "wait_pull_locked"}
                                /\ queue = << >>)
                   => queue' = queue]_vars

\* C17 happens: with two items pushed and pulled and every handle cloned, the
\* flag has been set to false and a pull_work on the empty queue has returned
\* None.
FrameConditionsWitness ==
    /\ wq = Threads
    /\ rx = Threads
    /\ Len(pushed) = 2
    /\ Len(pulled) = 2
    /\ ~flag
    /\ ret = Ret("pull_work", None)

\* ---------------------------------------------------------------- C18

\* C18: a wait call removes at most one item. The only step of a wait call
\* that changes the queue is its last one: it removes the head and returns
\* it. A call that returns an item removed that item in the step that returns,
\* a call that returns None leaves the queue alone in that step, and so does
\* every step after which the call goes on.
WaitRemovesAtMostOne ==
    [][\A t \in Threads :
          /\ (InWait(t) /\ pc'[t] # pc[t] /\ (queue' # queue \/ pulled' # pulled))
                => (pc[t] = "wait_pull_locked" /\ pc'[t] = "idle")
          /\ (InWait(t) /\ pc'[t] = "idle")
                => /\ queue # << >>
                   /\ queue' = Tail(queue)
                   /\ pulled' = Append(pulled, Head(queue))
                   /\ ret' = Ret("wait", Some(Head(queue)))
          /\ (InWait(t) /\ pc'[t] = "stopped")
                => (queue' = queue /\ pulled' = pulled /\ ret' = Ret("wait", None))
          /\ (InWait(t) /\ InWait(t)' /\ pc'[t] # pc[t])
                => (queue' = queue /\ pulled' = pulled)]_vars

\* C18 happens: of three items in the queue a wait call has removed and
\* returned the first, after a failed attempt of another call.
WaitRemovesAtMostOneWitness ==
    /\ Len(pushed) = 3
    /\ Len(queue) = 2
    /\ ret = Ret("wait", Some(pushed[1]))
    /\ \E t \in Threads : InWait(t) /\ tried[t]

\* ---------------------------------------------------------------- C19

\* C19: bounded shutdown response of wait. While the flag is false, a wait
\* call that is not between a flag read of true and its pull never gets to a
\* pull: it reads the flag and returns None; that is where a call started
\* after set(false) is. A call that read true before goes through the one
\* pull it is in and either returns the item or yields, where the first case
\* applies.
WaitShutdownResponse ==
    [][\A t \in Threads :
          /\ (~flag /\ ~flag' /\ pc[t] \in {"wait_get", "wait_get_locked", "wait_yield"})
                => pc'[t] \in {"wait_get", "wait_get_locked", "wait_yield", "stopped"}
          /\ (~flag /\ pc[t] = "wait_get_locked" /\ pc'[t] # pc[t])
                => (pc'[t] = "stopped" /\ ret' = Ret("wait", None))
          /\ (~flag /\ pc[t] \in {"wait_pull", "wait_pull_locked"})
                => pc'[t] \in {"wait_pull", "wait_pull_locked", "idle", "wait_yield"}
          /\ (~flag /\ AtRest(t) /\ InWait(t)') => pc'[t] = "wait_get"]_vars

\* C19 happens: set(false) has completed, and after it a wait call that had
\* read the flag as true made its pull and returned the item it got.
WaitShutdownResponseWitness ==
    /\ ~flag
    /\ ret.op = "wait"
    /\ ret.val # None
    /\ \A t \in Threads : pc[t] # "set"

====
